---- MODULE Spec2Model ----
(***************************************************************************)
(* fmuSimulate (source/fmusim/fmusim.c): forward-Euler simulation of one   *)
(* FMU with time, state and step events.  One action per call the function *)
(* makes to the model (or to the allocator / file system), each carrying   *)
(* the code that follows that call up to the next one; pc names the call   *)
(* about to be made.  The model is an arbitrary environment: every call    *)
(* may return any status and any output values.  Time is exact (integer    *)
(* ticks).  The continuous state vector x/xdot only round-trips through    *)
(* the model and takes no part in control flow, so it is not represented;  *)
(* the EventInfo fields stateValuesChanged and stateValueReferencesChanged *)
(* are only printed and are left out, as is loggingOn.                     *)
(* Spec is the run against any model; SpecSched the run against a model    *)
(* that schedules no time event in the past; SpecLive the run against any  *)
(* model in which every call returns (weak fairness), followed further.    *)
(***************************************************************************)
EXTENDS Integers, Sequences, FiniteSets

\* ---- bounds of the model -------------------------------------------------
MaxT == 2
MaxH == 3
MaxNz == 1
MaxIter == 2

\* ---- inputs ----------------------------------------------------------------
\* fmiStatus values a model call may return (fmiOK < fmiWarning < fmiError)
Status == {"fmiOK", "fmiWarning", "fmiError"}

\* scheduled event times a model may report: before the start, inside and
\* beyond the horizon
EventTimes == (0 - 1)..(MaxT + 1)

\* values of one event indicator (only the sign matters to the simulator)
IndicatorValues == {0 - 1, 0, 1}

\* fmiEventInfo as returned by initialize and eventUpdate.  nextEventTime is
\* read only under upcomingTimeEvent (short-circuit &&), and after a request
\* to terminate the loop is not entered again and neither field is read, so
\* the fields that are never read are fixed to FALSE and 0.
EventInfos ==
    { [terminateSimulation |-> FALSE, upcomingTimeEvent |-> TRUE, nextEventTime |-> nt] :
        nt \in EventTimes }
    \cup
    { [terminateSimulation |-> ts, upcomingTimeEvent |-> FALSE, nextEventTime |-> 0] :
        ts \in BOOLEAN }

ResultFileNames == {"null", "-", "path"}

VARIABLES
    pc,             \* position in fmuSimulate: the call about to be made
    tEnd, h,        \* arguments (tEnd is overwritten on termination at init)
    nz,             \* number of state event indicators
    simtime, tPre, dt,
    timeEvent, stateEvent, stepEvent,
    z, prez,        \* event indicators and their previous values
    eventInfo,
    nSteps, nTimeEvents, nStepEvents, nStateEvents,
    file,           \* "null" | "open" | "closed"
    c,              \* model instance: "null" | "live" | "freed"
    result,         \* return value of fmuSimulate, -1 while running
    \* ---- observation of the run (history, not read by the code) ----
    headerRows,     \* header rows handed to outputRow
    nRows,          \* value rows handed to outputRow
    lastRow,        \* the latest of them: its time stamp and its iteration
    iter,           \* loop iterations entered
    opLog,          \* model and sink operations invoked in the latest iteration
    failed,         \* the latest model call inside the loop returned > fmiWarning
    zSampled, prezSampled, \* z / prez hold values read from the model
    exitPath,       \* how the loop was left
    nEventUpdates,  \* eventUpdate invocations so far
    nFlagged,       \* iterations so far whose time advance set timeEvent
    pendingFlags    \* how often the EventInfo now in eventInfo set timeEvent

vars == <<pc, tEnd, h, nz, simtime, tPre, dt, timeEvent, stateEvent, stepEvent,
          z, prez, eventInfo, nSteps, nTimeEvents, nStepEvents,
          nStateEvents, file, c, result, headerRows, nRows, lastRow, iter, opLog,
          failed, zSampled, prezSampled, exitPath, nEventUpdates, nFlagged,
          pendingFlags>>

\* ---- helpers ---------------------------------------------------------------
t0 == 0

\* value returned by fmuError(...): failure
fmuError == 0

\* fmiFlag > fmiWarning
Worse(s) == s \notin {"fmiOK", "fmiWarning"}

\* what the code sees of the status of a call: whether it is > fmiWarning
CallFails == {Worse(s) : s \in Status}

\* faulty variant: the first argument, unclamped
min_first(a, b) == a
\* faulty variant: the larger of the two
min_max(a, b) == IF a > b THEN a ELSE b
\* #define min(a,b) (a>b ? b : a)
min(a, b) == IF a > b THEN b ELSE a

\* calloc(n, sizeof(double))
Zeros(n) == [i \in 1..n |-> 0]

\* faulty variant: an event at the candidate time is flagged too
DetectTimeEvent_le(ei, cand) == ei.upcomingTimeEvent /\ ei.nextEventTime <= cand
\* faulty variants: the pending flag is not tested; the event is never seen
DetectTimeEvent_noflag(ei, cand) == ei.nextEventTime < cand
DetectTimeEvent_never(ei, cand) == FALSE
\* timeEvent = eventInfo.upcomingTimeEvent && eventInfo.nextEventTime < simtime
DetectTimeEvent(ei, cand) == ei.upcomingTimeEvent /\ ei.nextEventTime < cand

\* faulty variant: the step is not shortened to the event
NewTime_noclamp(te, ei, cand) == cand
\* if (timeEvent) simtime = eventInfo.nextEventTime;
NewTime(te, ei, cand) == IF te THEN ei.nextEventTime ELSE cand

\* stateEvent = FALSE; for (i=0; i<nz; i++) stateEvent = stateEvent || (prez[i]*z[i] < 0)
RECURSIVE StateEventLoop(_, _, _, _, _)
StateEventLoop(i, n, pz, zz, acc) ==
    IF i > n THEN acc
    ELSE StateEventLoop(i + 1, n, pz, zz, acc \/ (pz[i] * zz[i] < 0))

\* faulty variant: <= 0 instead of < 0
RECURSIVE StateEventLoop_le(_, _, _, _, _)
StateEventLoop_le(i, n, pz, zz, acc) ==
    IF i > n THEN acc
    ELSE StateEventLoop_le(i + 1, n, pz, zz, acc \/ (pz[i] * zz[i] <= 0))

\* faulty variant: the flag is not cleared before the loop over the indicators
DetectStateEvent_set(n, pz, zz) == StateEventLoop(1, n, pz, zz, TRUE)
DetectStateEvent_le(n, pz, zz) == StateEventLoop_le(1, n, pz, zz, FALSE)
DetectStateEvent(n, pz, zz) == StateEventLoop(1, n, pz, zz, FALSE)

\* faulty variant: the step event is not tested
AnyEvent_nostep(te, se, st) == te \/ se
\* if (timeEvent || stateEvent || stepEvent)
AnyEvent(te, se, st) == te \/ se \/ st

\* ---- initial state -------------------------------------------------------
Init ==
    /\ pc = "instantiate"
    /\ tEnd \in 0..MaxT
    /\ h \in 1..MaxH
    /\ nz \in 0..MaxNz
    /\ simtime = 0 /\ tPre = 0 /\ dt = 0
    /\ timeEvent = FALSE /\ stateEvent = FALSE /\ stepEvent = FALSE
    /\ z = <<>> /\ prez = <<>>
    /\ eventInfo = [terminateSimulation |-> FALSE, upcomingTimeEvent |-> FALSE,
                    nextEventTime |-> 0]
    /\ nSteps = 0 /\ nTimeEvents = 0 /\ nStepEvents = 0 /\ nStateEvents = 0
    /\ file = "null"
    /\ c = "null"
    /\ result = 0 - 1
    /\ headerRows = 0
    /\ nRows = 0
    /\ lastRow = [t |-> 0, iter |-> 0]
    /\ iter = 0
    /\ opLog = <<>>
    /\ failed = FALSE
    /\ zSampled = FALSE /\ prezSampled = FALSE
    /\ exitPath = "none"
    /\ nEventUpdates = 0 /\ nFlagged = 0 /\ pendingFlags = 0

\* ---- variable groups -------------------------------------------------------
args == <<tEnd, h, nz>>
clock == <<simtime, tPre, dt, timeEvent>>
flags == <<stateEvent, stepEvent>>
indicators == <<z, prez, zSampled, prezSampled>>
counters == <<nSteps, nTimeEvents, nStepEvents, nStateEvents>>
output == <<headerRows, nRows, lastRow>>
tally == <<nEventUpdates, nFlagged, pendingFlags>>

\* return r; from inside fmuSimulate
Return(r, how) ==
    /\ pc' = "done"
    /\ result' = r
    /\ exitPath' = how

\* ---- fmuSimulate, step by step ---------------------------------------------

\* c = fmu->instantiateModel(...); if (!c) return fmuError(...)
Instantiate ==
    /\ pc = "instantiate"
    /\ \E ok \in BOOLEAN :
        IF ok
        THEN /\ c' = "live"
             /\ pc' = "allocate"
             /\ UNCHANGED <<result, exitPath>>
        ELSE /\ c' = "null"
             /\ Return(fmuError, "error")
    /\ UNCHANGED <<args, tally, clock, flags, indicators, eventInfo, counters,
                   file, output, iter, opLog, failed>>

\* x, xdot, z, prez = calloc(...); if (!x || ...) return fmuError("out of memory")
AllocateMemory ==
    /\ pc = "allocate"
    /\ \E ok \in BOOLEAN :
        IF ok
        THEN /\ z' = Zeros(nz)
             /\ prez' = Zeros(nz)
             /\ pc' = "openFile"
             /\ UNCHANGED <<result, exitPath>>
        ELSE /\ UNCHANGED <<z, prez>>
             /\ Return(fmuError, "error")
    /\ UNCHANGED <<args, tally, clock, flags, zSampled, prezSampled, eventInfo,
                   counters, file, c, output, iter, opLog, failed>>

\* if (resultFileName != 0) { "-" -> stdout; else fopen(...) or return 0 }
OpenResultFile ==
    /\ pc = "openFile"
    /\ \E resultFileName \in ResultFileNames, opened \in BOOLEAN :
        IF resultFileName = "null"
        THEN /\ file' = "null"
             /\ pc' = "setStartTime"
             /\ UNCHANGED <<result, exitPath>>
        ELSE IF resultFileName = "-" \/ opened
        THEN /\ file' = "open"
             /\ pc' = "setStartTime"
             /\ UNCHANGED <<result, exitPath>>
        ELSE /\ file' = "null"
             /\ Return(0, "error")
    /\ UNCHANGED <<args, tally, clock, flags, indicators, eventInfo, counters,
                   c, output, iter, opLog, failed>>

\* simtime = t0; fmiFlag = fmu->setTime(c, t0); if (fmiFlag > fmiWarning) return ...
SetStartTime ==
    /\ pc = "setStartTime"
    /\ simtime' = t0
    /\ \E bad \in CallFails :
        /\ IF bad
           THEN Return(fmuError, "error")
           ELSE /\ pc' = "initialize"
                /\ UNCHANGED <<result, exitPath>>
    /\ UNCHANGED <<args, tally, tPre, dt, timeEvent, flags, indicators, eventInfo,
                   counters, file, c, output, iter, opLog, failed>>

\* while (simtime < tEnd): enter the loop body or fall through to the cleanup
\* faulty variants: the test always succeeds; <= instead of <
WhileCond_always(t, te) == TRUE
WhileCond_le(t, te) == t <= te
WhileCond(t, te) == t < te

LoopTest(t, te) ==
    IF WhileCond(t, te)
    THEN /\ pc' = "getContinuousStates"
         /\ UNCHANGED exitPath
    ELSE /\ pc' = "cleanup"
         /\ exitPath' = "endTime"

\* fmiFlag = fmu->initialize(c, ..., t0, &eventInfo); a failure is reported but
\* not returned, and eventInfo, a local without initialiser that a failing
\* call need not have written, is then read with any value; a call that
\* succeeds leaves one of the EventInfo values EI the model may return.
\* Termination at init sets tEnd = simtime; then the header and the values
\* for t0 are written and the while test is made.
InitializeFrom(EI) ==
    /\ pc = "initialize"
    /\ \E bad \in CallFails :
       \E ei \in (IF bad THEN EventInfos ELSE EI) :
        /\ eventInfo' = ei
        /\ tEnd' = IF ei.terminateSimulation THEN simtime ELSE tEnd
    /\ IF file = "open"
       THEN /\ headerRows' = headerRows + 1
            /\ nRows' = nRows + 1
            /\ lastRow' = [t |-> t0, iter |-> iter]
       ELSE UNCHANGED <<headerRows, nRows, lastRow>>
    /\ LoopTest(simtime, tEnd')
    /\ UNCHANGED <<h, nz, tally, clock, flags, indicators, counters, file, c, result,
                   iter, opLog, failed>>

\* the model may return any EventInfo
Initialize == InitializeFrom(EventInfos)

\* a model call inside the loop whose failure returns from fmuSimulate
LoopCall(op, log, bad, next) ==
    /\ opLog' = Append(log, op)
    /\ failed' = bad
    /\ IF bad
       THEN Return(fmuError, "error")
       ELSE /\ pc' = next
            /\ UNCHANGED <<result, exitPath>>

\* fmiFlag = fmu->getContinuousStates(c, x, nx); if (> fmiWarning) return ...
GetContinuousStatesUpTo(n) ==
    /\ pc = "getContinuousStates"
    /\ iter < n
    /\ iter' = iter + 1
    /\ \E bad \in CallFails : LoopCall("getContinuousStates", <<>>, bad, "getDerivatives")
    /\ UNCHANGED <<args, tally, clock, flags, indicators, eventInfo, counters, file, c,
                   output>>

\* runs are followed for MaxIter iterations
GetContinuousStates == GetContinuousStatesUpTo(MaxIter)

\* fmiFlag = fmu->getDerivatives(c, xdot, nx); if (> fmiWarning) return ...
GetDerivatives ==
    /\ pc = "getDerivatives"
    /\ \E bad \in CallFails : LoopCall("getDerivatives", opLog, bad, "setTime")
    /\ UNCHANGED <<args, tally, clock, flags, indicators, eventInfo, counters, file, c,
                   output, iter>>

\* tPre = simtime; simtime = min(simtime+h, tEnd); timeEvent = ...;
\* if (timeEvent) simtime = nextEventTime; dt = simtime - tPre;
\* fmiFlag = fmu->setTime(c, simtime); a failure is reported but not returned
SetTime ==
    /\ pc = "setTime"
    /\ LET cand == min(simtime + h, tEnd)
           te == DetectTimeEvent(eventInfo, cand)
           new == NewTime(te, eventInfo, cand)
       IN /\ tPre' = simtime
          /\ timeEvent' = te
          /\ simtime' = new
          /\ dt' = new - simtime
          /\ nFlagged' = nFlagged + (IF te THEN 1 ELSE 0)
          /\ pendingFlags' = pendingFlags + (IF te THEN 1 ELSE 0)
    /\ \E bad \in CallFails : failed' = bad
    /\ opLog' = Append(opLog, "setTime")
    /\ pc' = "setContinuousStates"
    /\ UNCHANGED <<args, nEventUpdates, flags, indicators, eventInfo, counters, file, c, result,
                   output, iter, exitPath>>

\* x[i] += dt*xdot[i]; fmiFlag = fmu->setContinuousStates(c, x, nx); if ... return
SetContinuousStates ==
    /\ pc = "setContinuousStates"
    /\ \E bad \in CallFails : LoopCall("setContinuousStates", opLog, bad, "completedIntegratorStep")
    /\ UNCHANGED <<args, tally, clock, flags, indicators, eventInfo, counters, file, c,
                   output, iter>>

\* fmiFlag = fmu->completedIntegratorStep(c, &stepEvent); if ... return
CompletedIntegratorStep ==
    /\ pc = "completedIntegratorStep"
    /\ \E bad \in CallFails : LoopCall("completedIntegratorStep", opLog, bad, "getEventIndicators")
    /\ stepEvent' \in BOOLEAN
    /\ UNCHANGED <<args, tally, clock, stateEvent, indicators, eventInfo, counters, file,
                   c, output, iter>>

\* prez[i] = z[i]; fmiFlag = fmu->getEventIndicators(c, z, nz); if ... return;
\* stateEvent = exists i: prez[i]*z[i] < 0.  What a failing call left in its
\* output argument is not read again (here and in EventUpdate).
GetEventIndicators ==
    /\ pc = "getEventIndicators"
    /\ prez' = z
    /\ prezSampled' = zSampled
    /\ \E bad \in CallFails :
        /\ LoopCall("getEventIndicators", opLog, bad, "handleEvents")
        /\ IF bad
           THEN UNCHANGED <<z, zSampled, stateEvent>>
           ELSE \E zz \in [1..nz -> IndicatorValues] :
                /\ z' = zz
                /\ zSampled' = TRUE
                /\ stateEvent' = DetectStateEvent(nz, z, zz)
    /\ UNCHANGED <<args, tally, clock, stepEvent, eventInfo, counters, file, c, output,
                   iter>>

\* faulty variant: the row of the step is not written
OutputStep_norow(log) ==
    /\ opLog' = log
    /\ nSteps' = nSteps + 1
    /\ LoopTest(simtime, tEnd)
    /\ UNCHANGED <<nRows, lastRow>>

\* the model calls every iteration makes before it looks at the event flags
StepOrder ==
    <<"getContinuousStates", "getDerivatives", "setTime", "setContinuousStates",
      "completedIntegratorStep", "getEventIndicators">>

\* faulty variant: the row of the step is written before the event handling
OutputStep_early(log) ==
    /\ IF file = "open"
       THEN /\ nRows' = nRows + 1
            /\ lastRow' = [t |-> simtime, iter |-> iter]
            /\ opLog' = StepOrder \o <<"outputRow">>
                            \o SubSeq(log, Len(StepOrder) + 1, Len(log))
       ELSE /\ opLog' = log
            /\ UNCHANGED <<nRows, lastRow>>
    /\ nSteps' = nSteps + 1
    /\ LoopTest(simtime, tEnd)

\* faulty variant: the step is not counted
OutputStep_nocount(log) ==
    /\ IF file = "open"
       THEN /\ nRows' = nRows + 1
            /\ lastRow' = [t |-> simtime, iter |-> iter]
            /\ opLog' = Append(log, "outputRow")
       ELSE /\ opLog' = log
            /\ UNCHANGED <<nRows, lastRow>>
    /\ nSteps' = nSteps
    /\ LoopTest(simtime, tEnd)

\* end of the loop body: if (file) outputRow(fmu, c, simtime, ...); nSteps++;
\* then the while test
OutputStep(log) ==
    /\ IF file = "open"
       THEN /\ nRows' = nRows + 1
            /\ lastRow' = [t |-> simtime, iter |-> iter]
            /\ opLog' = Append(log, "outputRow")
       ELSE /\ opLog' = log
            /\ UNCHANGED <<nRows, lastRow>>
    /\ nSteps' = nSteps + 1
    /\ LoopTest(simtime, tEnd)

\* faulty variant: a flagged event is counted twice
CountIf_twice(flag, n) == IF flag THEN n + 2 ELSE n
\* if (timeEvent) nTimeEvents++; and likewise for the other two flags
CountIf(flag, n) == IF flag THEN n + 1 ELSE n

\* faulty variant: the request to terminate is ignored
BreakRequested_never(ei) == FALSE
\* if (eventInfo.terminateSimulation) { ...; break; }
BreakRequested(ei) == ei.terminateSimulation

\* if (timeEvent || stateEvent || stepEvent) { count; fmiFlag = eventUpdate(...);
\* if ... return; if (eventInfo.terminateSimulation) break; } and, unless the
\* loop was left, the end of the loop body
EventUpdateFrom(EI) ==
    /\ pc = "handleEvents"
    /\ AnyEvent(timeEvent, stateEvent, stepEvent)
    /\ nTimeEvents' = CountIf(timeEvent, nTimeEvents)
    /\ nStateEvents' = CountIf(stateEvent, nStateEvents)
    /\ nStepEvents' = CountIf(stepEvent, nStepEvents)
    /\ nEventUpdates' = nEventUpdates + 1
    /\ \E bad \in CallFails :
        /\ failed' = bad
        /\ IF bad
           THEN /\ opLog' = Append(opLog, "eventUpdate")
                /\ Return(fmuError, "error")
                /\ UNCHANGED <<eventInfo, pendingFlags, nSteps, nRows, lastRow>>
           ELSE \E ei \in EI :
                /\ eventInfo' = ei
                /\ pendingFlags' = 0
                /\ IF BreakRequested(ei)
                   THEN /\ opLog' = Append(opLog, "eventUpdate")
                        /\ pc' = "cleanup"
                        /\ exitPath' = "terminated"
                        /\ UNCHANGED <<result, nSteps, nRows, lastRow>>
                   ELSE /\ OutputStep(Append(opLog, "eventUpdate"))
                        /\ UNCHANGED result
    /\ UNCHANGED <<args, nFlagged, clock, flags, indicators, file, c, headerRows, iter>>

\* the model may return any EventInfo
EventUpdate == EventUpdateFrom(EventInfos)

\* no event in this step: straight to the end of the loop body
SkipEvents ==
    /\ pc = "handleEvents"
    /\ ~AnyEvent(timeEvent, stateEvent, stepEvent)
    /\ OutputStep(opLog)
    /\ UNCHANGED <<args, tally, clock, flags, indicators, eventInfo, nTimeEvents,
                   nStepEvents, nStateEvents, file, c, result, headerRows, iter,
                   failed>>

\* fmu->freeModelInstance(c); if (file) fclose(file); ...; return 1
Cleanup ==
    /\ pc = "cleanup"
    /\ c' = "freed"
    /\ file' = IF file = "open" THEN "closed" ELSE file
    /\ result' = 1
    /\ pc' = "done"
    /\ UNCHANGED <<args, tally, clock, flags, indicators, eventInfo, counters,
                   output, iter, opLog, failed, exitPath>>

Next ==
    \/ Instantiate
    \/ AllocateMemory
    \/ OpenResultFile
    \/ SetStartTime
    \/ Initialize
    \/ GetContinuousStates
    \/ GetDerivatives
    \/ SetTime
    \/ SetContinuousStates
    \/ CompletedIntegratorStep
    \/ GetEventIndicators
    \/ EventUpdate
    \/ SkipEvents
    \/ Cleanup

Spec == Init /\ [][Next]_vars

\* ---- a model that keeps to a schedule --------------------------------------
\* EventInfo values whose pending time event, if any, is not scheduled
\* before lo
Scheduled(lo) ==
    { ei \in EventInfos : ei.upcomingTimeEvent => ei.nextEventTime >= lo }

\* initialize and eventUpdate schedule time events no earlier than the
\* simulated time at which they are called
InitializeSched == InitializeFrom(Scheduled(simtime))
EventUpdateSched == EventUpdateFrom(Scheduled(simtime))

NextSched ==
    \/ Instantiate
    \/ AllocateMemory
    \/ OpenResultFile
    \/ SetStartTime
    \/ InitializeSched
    \/ GetContinuousStates
    \/ GetDerivatives
    \/ SetTime
    \/ SetContinuousStates
    \/ CompletedIntegratorStep
    \/ GetEventIndicators
    \/ EventUpdateSched
    \/ SkipEvents
    \/ Cleanup

SpecSched == Init /\ [][NextSched]_vars

TypeOK ==
    /\ simtime \in EventTimes
    /\ nSteps \in 0..MaxIter
    /\ nRows <= MaxIter + 1

\* ---- properties ------------------------------------------------------------

\* positions at which tPre, simtime, dt, timeEvent and eventInfo are those of
\* the time advance of the current iteration
AfterAdvance ==
    pc \in {"setContinuousStates", "completedIntegratorStep", "getEventIndicators",
            "handleEvents"}

\* the scheduled time of the pending time event
T == eventInfo.nextEventTime

\* number of invocations of op in the current iteration
Count(op) == Cardinality({k \in 1..Len(opLog) : opLog[k] = op})

\* C1: simulated time never exceeds tEnd, and neither does the time stamp of
\* any row handed to the row sink.
C1_TimeBounded ==
    /\ simtime <= tEnd
    /\ nRows > 0 => lastRow.t <= tEnd

\* a step that was clamped to tEnd and whose row was written
C1_Witness ==
    /\ nRows >= 2
    /\ tPre + h > tEnd
    /\ lastRow.t = tEnd
    /\ simtime = tEnd

\* C2 (as claimed): in every iteration the time after the advance is >= the
\* time before it, whatever event schedule the model returned.
C2_Original == AfterAdvance => (dt >= 0 /\ simtime >= tPre)

\* C2 (amended): simulated time is non-decreasing in every iteration that
\* does not start with a pending time event scheduled before the current time.
C2_Monotone ==
    (AfterAdvance /\ ~(eventInfo.upcomingTimeEvent /\ T < tPre))
        => (dt >= 0 /\ simtime >= tPre /\ dt = simtime - tPre)

\* an iteration shortened by a time event that still moves forward
C2_Witness ==
    /\ pc = "setContinuousStates"
    /\ timeEvent
    /\ T > tPre
    /\ simtime = T
    /\ dt > 0

\* C3 (as claimed): a pending time event with tPre < T < tPre + h is hit exactly.
C3_Original ==
    (AfterAdvance /\ eventInfo.upcomingTimeEvent /\ tPre < T /\ T < tPre + h)
        => simtime = T

\* C3 (amended): a pending time event with tPre < T < tPre + h and T <= tEnd
\* is hit exactly by the iteration's time advance.
C3_ExactHit ==
    (AfterAdvance /\ eventInfo.upcomingTimeEvent /\ tPre < T /\ T < tPre + h
        /\ T <= tEnd)
        => (simtime = T /\ dt = T - tPre)

\* the step was shortened to the event, not to the end time
C3_Witness ==
    /\ pc = "setContinuousStates"
    /\ eventInfo.upcomingTimeEvent
    /\ tPre < T /\ T < tPre + h /\ T < tEnd
    /\ timeEvent
    /\ simtime = T

\* C4: no iteration moves simulated time from tPre <= T to beyond T while a
\* time event scheduled at T is pending.
C4_NoStepOver ==
    (AfterAdvance /\ eventInfo.upcomingTimeEvent /\ tPre <= T) => simtime <= T

\* a full step would have passed the event
C4_Witness ==
    /\ pc = "setContinuousStates"
    /\ eventInfo.upcomingTimeEvent
    /\ tPre <= T
    /\ T < tPre + h /\ T < tEnd
    /\ simtime = T

\* a strict sign change of indicator i between the two generations
SignChange(i) == (prez[i] > 0 /\ z[i] < 0) \/ (prez[i] < 0 /\ z[i] > 0)

C6_PreviousSampled == (pc = "handleEvents" /\ nz > 0) => prezSampled

\* the latest iteration ran to the end of the loop body or was left by break;
\* opLog and the three flags are still those of that iteration
IterationOver == iter >= 1 /\ pc \in {"getContinuousStates", "cleanup"}

C8_AbortOnFailure == failed => (pc = "done" /\ result # 1)

\* C9 (as claimed): once the model instance exists, every return of
\* fmuSimulate has released it and closed an opened sink.
C9_CleanupAlways == (pc = "done" /\ c # "null") => (c = "freed" /\ file # "open")

\* value rows due with a sink present: the one for t0 and one per iteration
\* that reached its end
RowsDue == IF pc = "getContinuousStates" \/ exitPath = "endTime" THEN iter + 1 ELSE iter

StepsDue ==
    IF pc = "getContinuousStates" \/ exitPath = "endTime" \/ iter = 0
    THEN iter
    ELSE iter - 1

C12_InitTermination ==
    (eventInfo.terminateSimulation /\ iter = 0) =>
        /\ pc \in {"cleanup", "done"}
        /\ exitPath = "endTime"
        /\ tEnd = simtime /\ simtime = t0
        /\ opLog = <<>>
        /\ nSteps = 0 /\ nEventUpdates = 0
        /\ nTimeEvents = 0 /\ nStateEvents = 0 /\ nStepEvents = 0
        /\ ~zSampled
        /\ headerRows <= 1 /\ nRows <= 1
        /\ file = "null" => (headerRows = 0 /\ nRows = 0)
        /\ pc = "done" => (result = 1 /\ c = "freed" /\ file # "open")

\* terminated at initialisation with a sink: header, one row, success
C12_Witness ==
    /\ pc = "done"
    /\ eventInfo.terminateSimulation
    /\ iter = 0
    /\ h = MaxH
    /\ headerRows = 1 /\ nRows = 1
    /\ result = 1
    /\ c = "freed"

C15_NoIndicators == nz = 0 => (~stateEvent /\ nStateEvents = 0)

\* second iteration of a run without indicators, with a time event and a
\* step event flagged and an earlier event counted
C15_Witness ==
    /\ nz = 0
    /\ pc = "handleEvents"
    /\ iter = 2
    /\ timeEvent /\ stepEvent
    /\ nEventUpdates = 1
    /\ ~stateEvent

\* ceil(a / b) for a >= 0, b > 0
Ceil(a, b) == (a + b - 1) \div b

\* no time, state or step event so far and no request to terminate
Uneventful ==
    /\ nFlagged = 0
    /\ nEventUpdates = 0
    /\ ~eventInfo.terminateSimulation

C17_TimeEventFlag ==
    /\ AfterAdvance =>
        LET cand == min(tPre + h, tEnd)
        IN /\ timeEvent <=> (eventInfo.upcomingTimeEvent /\ T < cand)
           /\ timeEvent => (simtime = T /\ dt = T - tPre /\ pendingFlags = 1)
           /\ ~timeEvent => (simtime = cand /\ dt = cand - tPre /\ pendingFlags = 0)
           /\ nTimeEvents = nFlagged - (IF timeEvent THEN 1 ELSE 0)
    /\ pendingFlags <= 1
    /\ pc \in {"getContinuousStates", "cleanup"} =>
        (nTimeEvents = nFlagged /\ pendingFlags = 0)

\* a time event strictly inside the first step was flagged, counted and not
\* scheduled again
C17_Witness ==
    /\ pc = "getContinuousStates"
    /\ iter = 1
    /\ timeEvent
    /\ dt > 0 /\ dt < h /\ simtime < tEnd
    /\ nTimeEvents = 1
    /\ ~eventInfo.upcomingTimeEvent

\* a is an initial segment of b
IsPrefix(a, b) == Len(a) <= Len(b) /\ a = SubSeq(b, 1, Len(a))

\* C18: the operations of an iteration are invoked in the fixed order
\* getContinuousStates, getDerivatives, setTime, setContinuousStates,
\* completedIntegratorStep, getEventIndicators, then eventUpdate if an event
\* was flagged, then the row of the step if there is a sink; eventUpdate is
\* never invoked before the six calls are through, and the row never before
\* eventUpdate.
C18_CallOrder ==
    /\ \E tail \in {<<>>, <<"outputRow">>, <<"eventUpdate">>,
                     <<"eventUpdate", "outputRow">>} :
            IsPrefix(opLog, StepOrder \o tail)
    /\ pc = "handleEvents" => opLog = StepOrder
    /\ (pc = "getContinuousStates" /\ iter >= 1) =>
        /\ IsPrefix(StepOrder, opLog)
        /\ Count("eventUpdate") = (IF timeEvent \/ stateEvent \/ stepEvent THEN 1 ELSE 0)
        /\ Count("outputRow") = (IF file = "open" THEN 1 ELSE 0)

\* an iteration with an event and a sink: all eight operations
C18_Witness ==
    /\ pc = "getContinuousStates"
    /\ iter = 2
    /\ opLog = StepOrder \o <<"eventUpdate", "outputRow">>

\* the while test has just been made
AtLoopTest == pc = "getContinuousStates" \/ exitPath = "endTime"

\* C20: no event counter exceeds the number of eventUpdate invocations, which
\* is at most nSteps + 1; whenever the while test is made with a sink present,
\* nSteps + 1 value rows have been written; and no step of the program
\* decreases any of the four counters.
C20_Counters ==
    /\ [](/\ nTimeEvents <= nEventUpdates
          /\ nStateEvents <= nEventUpdates
          /\ nStepEvents <= nEventUpdates
          /\ nEventUpdates <= nSteps + 1
          /\ (AtLoopTest /\ file # "null") => nRows = nSteps + 1)
    /\ [][/\ nSteps' >= nSteps
          /\ nTimeEvents' >= nTimeEvents
          /\ nStateEvents' >= nStateEvents
          /\ nStepEvents' >= nStepEvents]_vars

\* every bound is met with equality: an event of each kind in both
\* iterations, the second eventUpdate asking to terminate
C20_Witness ==
    /\ pc = "done"
    /\ file = "closed"
    /\ nSteps = 1
    /\ nEventUpdates = 2
    /\ nTimeEvents = 2 /\ nStateEvents = 1 /\ nStepEvents = 2
    /\ nRows = 2

\* the loop has been left
LoopLeft == pc \in {"cleanup", "done"}

OnSchedule ==
    (/\ pc = "getContinuousStates"
     /\ iter = 0 \/ Count("eventUpdate") = 1
     /\ eventInfo.upcomingTimeEvent)
        => T > simtime

\* iterations after which a run that is still in the loop is given up; a
\* model that keeps to OnSchedule needs at most two iterations per tick of
\* simulated time, one that lands on a pending event and one of length 0
\* that flags it
LiveIter == 2 * (MaxT + 1) + 2

\* runs are followed for LiveIter iterations, those of a model that has just
\* scheduled an event at or before the current time for MaxIter
GetContinuousStatesLive ==
    GetContinuousStatesUpTo(IF OnSchedule THEN LiveIter ELSE MaxIter)

NextLive ==
    \/ Instantiate
    \/ AllocateMemory
    \/ OpenResultFile
    \/ SetStartTime
    \/ Initialize
    \/ GetContinuousStatesLive
    \/ GetDerivatives
    \/ SetTime
    \/ SetContinuousStates
    \/ CompletedIntegratorStep
    \/ GetEventIndicators
    \/ EventUpdate
    \/ SkipEvents
    \/ Cleanup

\* models without event indicators: whether the loop is left depends on
\* simulated time and the EventInfo only, and eventUpdate is still reached
\* in any iteration through the step event
InitLive == Init /\ nz = 0

\* every call returns: a step that is possible is eventually taken
SpecLive == InitLive /\ [][NextLive]_vars /\ WF_vars(NextLive)

C19_StepLength ==
    AfterAdvance =>
        /\ 0 <= dt
        /\ dt <= h
        /\ dt = 0 => timeEvent

====
